---- MODULE Spec2Model ----
(***************************************************************************)
(* A model of wbgapi.economy_coder.coder: the lazy build of the rule table *)
(* (_lookup_data) and of the canonical-name table (_coder_names) from the  *)
(* fetched country records and the override catalog (lookup-data.yaml),    *)
(* the per-input scan of the rule table, and the shape of the value        *)
(* returned; of coder called from two threads; and of                      *)
(* wbgapi.economy.update_caches, which fills the per-language tables, the  *)
(* classification table and the set of aggregates.                         *)
(*                                                                         *)
(* A string is a sequence of one-character strings.  A regular expression  *)
(* is a sequence of tokens: a one-character string is a literal (the       *)
(* character "." is the regex wildcard), and the four tokens below are the *)
(* pieces of regex syntax that prepare() and coder() put into a pattern.   *)
(* Override patterns of the catalog are drawn from strings over letters,   *)
(* digits, blanks, "&" and ".", the alphabet in which this reading of a    *)
(* pattern is exactly what re.search does.                                 *)
(***************************************************************************)
EXTENDS Integers, Sequences, FiniteSets, TLC

None == "None"

\* ------------------------------------------------------------------ text
UpperLetters ==
    <<"A","B","C","D","E","F","G","H","I","J","K","L","M",
      "N","O","P","Q","R","S","T","U","V","W","X","Y","Z">>

LowerLetters ==
    <<"a","b","c","d","e","f","g","h","i","j","k","l","m",
      "n","o","p","q","r","s","t","u","v","w","x","y","z">>

Digits == {"0","1","2","3","4","5","6","7","8","9"}

Range(f) == { f[i] : i \in DOMAIN f }

\* the lower-case letter of each upper-case letter
LowerMap ==
    [ c \in Range(UpperLetters) |-> LowerLetters[CHOOSE i \in 1..26 : UpperLetters[i] = c] ]

\* str.lower() on one character
LowerChar(c) == IF c \in DOMAIN LowerMap THEN LowerMap[c] ELSE c

\* str.lower()
Lower(s) == [ i \in 1..Len(s) |-> LowerChar(s[i]) ]

\* the regex class \w
WordChars == Range(LowerLetters) \cup Range(UpperLetters) \cup Digits \cup {"_"}

IsWord(c) == c \in WordChars

\* the regex class \s
IsSpace(c) == c = " "

\* the regex assertion \b at the gap before s[i] (after s[i-1])
Boundary(s, i) ==
    LET before == i > 1 /\ i - 1 <= Len(s) /\ IsWord(s[i-1])
        after  == i >= 1 /\ i <= Len(s) /\ IsWord(s[i])
    IN  before # after

\* s[i..j], empty when j < i
Slice(s, i, j) == IF j < i THEN <<>> ELSE SubSeq(s, i, j)

\* does s continue with the characters of w from position i on
HasAt(s, i, w) ==
    /\ i >= 1
    /\ i + Len(w) - 1 <= Len(s)
    /\ \A k \in 1..Len(w) : s[i + k - 1] = w[k]

\* tokens of regex syntax
TokB   == "\\b"
TokWs  == "\\s+"
TokAnd == "(and|\\&)"
TokSt  == "(st|saint)"

\* length of the match of \((u\.?s\.?|u\.?k\.?)\) at position i, 0 when none
USUKLen(s, i) ==
    IF ~ (HasAt(s, i, <<"(">>) /\ HasAt(s, i + 1, <<"u">>)) THEN 0
    ELSE LET j == IF HasAt(s, i + 2, <<".">>) THEN i + 3 ELSE i + 2
         IN  IF ~ (HasAt(s, j, <<"s">>) \/ HasAt(s, j, <<"k">>)) THEN 0
             ELSE LET k == IF HasAt(s, j + 1, <<".">>) THEN j + 2 ELSE j + 1
                  IN  IF HasAt(s, k, <<")">>) THEN k - i + 1 ELSE 0

RECURSIVE UnwrapFrom(_, _)
UnwrapFrom(s, i) ==
    IF i > Len(s) THEN <<>>
    ELSE LET n == USUKLen(s, i)
         IN  IF n = 0 THEN <<s[i]>> \o UnwrapFrom(s, i + 1)
             ELSE LET j == IF s[i + 2] = "." THEN i + 3 ELSE i + 2
                  IN  <<"u", s[j]>> \o UnwrapFrom(s, i + n)

\* re.sub(r'\((u\.?s\.?|u\.?k\.?)\)', lambda t: t.group(1).replace('.',''), s)
UnwrapUSUK(s) == UnwrapFrom(s, 1)

\* re.sub(r'\s*\(.*\)', '', s): the leftmost match starts at the blanks before
\* the first "(" and, .* being greedy, ends at the last ")"
StripParens(s) ==
    LET opens  == { i \in 1..Len(s) : s[i] = "(" }
        closes == { i \in 1..Len(s) : s[i] = ")" }
    IN  IF opens = {} THEN s
        ELSE LET p == CHOOSE i \in opens : \A k \in opens : i <= k
                 after == { i \in closes : i > p }
             IN  IF after = {} THEN s
                 ELSE LET q == CHOOSE i \in after : \A k \in after : k <= i
                          b == CHOOSE i \in 1..p :
                                 /\ \A k \in i..(p - 1) : IsSpace(s[k])
                                 /\ \A m \in 1..(i - 1) :
                                      \E k \in m..(p - 1) : ~ IsSpace(s[k])
                      IN  Slice(s, 1, b - 1) \o Slice(s, q + 1, Len(s))

\* s.replace("'", '')
DropApostrophes(s) == SelectSeq(s, LAMBDA c : c # "'")

\* re.sub(r'[^\w&]', ' ', s)
SpaceOut(s) == [ i \in 1..Len(s) |-> IF IsWord(s[i]) \/ s[i] = "&" THEN s[i] ELSE " " ]

\* s.strip()
Strip(s) ==
    LET keep == { i \in 1..Len(s) : ~ IsSpace(s[i]) }
    IN  IF keep = {} THEN <<>>
        ELSE LET lo == CHOOSE i \in keep : \A k \in keep : i <= k
                 hi == CHOOSE i \in keep : \A k \in keep : k <= i
             IN  SubSeq(s, lo, hi)

\* re.sub(r'\b<word>\b', <token>, s), leftmost non-overlapping matches
RECURSIVE SubWordFrom(_, _, _, _)
SubWordFrom(s, i, word, tok) ==
    IF i > Len(s) THEN <<>>
    ELSE IF HasAt(s, i, word) /\ Boundary(s, i) /\ Boundary(s, i + Len(word))
         THEN <<tok>> \o SubWordFrom(s, i + Len(word), word, tok)
         ELSE <<s[i]>> \o SubWordFrom(s, i + 1, word, tok)

\* re.sub(r'\s+', r'\\s+', s)
RECURSIVE SubSpacesFrom(_, _)
SubSpacesFrom(s, i) ==
    IF i > Len(s) THEN <<>>
    ELSE IF IsSpace(s[i])
         THEN IF i > 1 /\ IsSpace(s[i-1]) THEN SubSpacesFrom(s, i + 1)
              ELSE <<TokWs>> \o SubSpacesFrom(s, i + 1)
         ELSE <<s[i]>> \o SubSpacesFrom(s, i + 1)

\* the magicRegex branch of prepare
Magic(s) ==
    LET s1 == SubWordFrom(s, 1, <<"a","n","d">>, TokAnd)
        s2 == SubWordFrom(s1, 1, <<"s","t">>, TokSt)
    IN  SubSpacesFrom(s2, 1)

\* the clean branch of prepare
Clean(s) == SpaceOut(DropApostrophes(StripParens(UnwrapUSUK(s))))

prepare(s, clean, magicRegex) ==
    LET s1 == Lower(s)
        s2 == IF clean THEN Clean(s1) ELSE s1
        s3 == Strip(s2)
    IN  IF magicRegex THEN Magic(s3) ELSE s3

\* ------------------------------------------------------------- re.search
\* the alternatives of a group token
Alternatives(tok) ==
    IF tok = TokAnd THEN { <<"a","n","d">>, <<"&">> }
    ELSE IF tok = TokSt THEN { <<"s","t">>, <<"s","a","i","n","t">> }
    ELSE {}

\* how many blanks s has from position i on
RECURSIVE SpaceRun(_, _)
SpaceRun(s, i) ==
    IF i <= Len(s) /\ IsSpace(s[i]) THEN 1 + SpaceRun(s, i + 1) ELSE 0

\* the positions at which a match of pat[k..] that starts at s[i] can end
RECURSIVE MatchEnds(_, _, _, _)
MatchEnds(pat, k, s, i) ==
    IF k > Len(pat) THEN {i}
    ELSE LET tok == pat[k]
         IN  IF tok = TokB
             THEN IF Boundary(s, i) THEN MatchEnds(pat, k + 1, s, i) ELSE {}
             ELSE IF tok = TokWs
             THEN UNION { MatchEnds(pat, k + 1, s, i + m) : m \in 1..SpaceRun(s, i) }
             ELSE IF Alternatives(tok) # {}
             THEN UNION { MatchEnds(pat, k + 1, s, i + Len(w)) :
                            w \in { a \in Alternatives(tok) : HasAt(s, i, a) } }
             ELSE IF i <= Len(s) /\ (tok = "." \/ tok = s[i])
             THEN MatchEnds(pat, k + 1, s, i + 1)
             ELSE {}

\* re.search(pattern, s) is not None
Search(pat, s) == \E i \in 1..(Len(s) + 1) : MatchEnds(pat, 1, s, i) # {}

\* '\\b{}\\b'.format(p)
WordBounded(p) == <<TokB>> \o p \o <<TokB>>

\* ------------------------------------------------------- program values
\* Python's None as a result value: a value no sequence of characters equals
Unresolved == <<None>>

\* a module global that is None
NoneVal == [none |-> TRUE, val |-> <<>>]

\* a module global that holds v
Some(v) == [none |-> FALSE, val |-> v]

\* d[k] = v on a dict
Put(d, k, v) == [ x \in (DOMAIN d) \cup {k} |-> IF x = k THEN v ELSE d[x] ]

\* d.get(k, default)
Get(d, k, default) == IF k \in DOMAIN d THEN d[k] ELSE default

\* the default of obj.get('order', 10)
DefaultOrder == 10

\* values of the override catalog: a yaml list, a yaml mapping, anything else
ListOf(ps) ==
    [kind |-> "list", hasPatterns |-> TRUE, patterns |-> ps, hasOrder |-> FALSE, order |-> DefaultOrder]

DictOf(hasP, ps, hasO, o) ==
    [kind |-> "dict", hasPatterns |-> hasP, patterns |-> ps, hasOrder |-> hasO, order |-> o]

ScalarValue ==
    [kind |-> "scalar", hasPatterns |-> FALSE, patterns |-> <<>>, hasOrder |-> FALSE, order |-> DefaultOrder]

\* the default {} of user_data.get(row['id'], {})
EmptyDict == DictOf(FALSE, <<>>, FALSE, DefaultOrder)

\* one record of w.fetch('country/all')
Row(id, name, region) == [id |-> id, name |-> name, region |-> region]

\* one tuple of _lookup_data
Rule(pattern, id, mode, order) == [pattern |-> pattern, id |-> id, mode |-> mode, order |-> order]

\* --------------------------------------------------------- the rule table
\* the rule of one override pattern, by its leading sigil
OverrideRule(row2, id, order) ==
    IF Slice(row2, 1, 1) = <<":">>
    THEN Rule(Lower(Slice(row2, 2, Len(row2))), id, 0, order)
    ELSE IF Slice(row2, 1, 1) = <<"~">>
    THEN Rule(WordBounded(prepare(Slice(row2, 2, Len(row2)), FALSE, TRUE)), id, 2, order)
    ELSE Rule(WordBounded(prepare(row2, FALSE, TRUE)), id, 1, order)

\* the rules of a record, its exact-code rule left in upper case
RowRulesRawCode(row, obj) ==
    LET order == IF obj.hasOrder THEN obj.order ELSE DefaultOrder
        pats  == IF obj.hasPatterns THEN obj.patterns ELSE <<>>
    IN  << Rule(row.id, row.id, 0, order),
           Rule(WordBounded(prepare(row.name, TRUE, TRUE)), row.id, 1, order) >>
        \o [ i \in 1..Len(pats) |-> OverrideRule(pats[i], row.id, order) ]

\* the rules of a record, its name rule built without the clean pass
RowRulesRawName(row, obj) ==
    LET order == IF obj.hasOrder THEN obj.order ELSE DefaultOrder
        pats  == IF obj.hasPatterns THEN obj.patterns ELSE <<>>
    IN  << Rule(Lower(row.id), row.id, 0, order),
           Rule(WordBounded(prepare(row.name, FALSE, TRUE)), row.id, 1, order) >>
        \o [ i \in 1..Len(pats) |-> OverrideRule(pats[i], row.id, order) ]

\* the rules appended for one record that is not an aggregate
RowRules(row, obj) ==
    LET order == IF obj.hasOrder THEN obj.order ELSE DefaultOrder
        pats  == IF obj.hasPatterns THEN obj.patterns ELSE <<>>
    IN  << Rule(Lower(row.id), row.id, 0, order),
           Rule(WordBounded(prepare(row.name, TRUE, TRUE)), row.id, 1, order) >>
        \o [ i \in 1..Len(pats) |-> OverrideRule(pats[i], row.id, order) ]

\* _lookup_data.sort(key=lambda x: x[3]): a stable sort
RECURSIVE SortOrders(_, _)
SortOrders(data, orders) ==
    IF orders = {} THEN <<>>
    ELSE LET m == CHOOSE o \in orders : \A p \in orders : o <= p
         IN  SelectSeq(data, LAMBDA r : r.order = m) \o SortOrders(data, orders \ {m})

\* a sort by priority that turns the rules of equal priority around
SortByOrderUnstable(data) ==
    SortOrders([ i \in 1..Len(data) |-> data[Len(data) + 1 - i] ],
               { data[i].order : i \in DOMAIN data })

SortByOrder(data) == SortOrders(data, { data[i].order : i \in DOMAIN data })

\* a build that skips no record
NeverAggregate(row) == FALSE

\* is the record skipped as an aggregate
IsAggregate(row) == row.region = "NA"

\* The body of "if _lookup_data is None", from record k on.  outcome says how
\* the collaborators behave: "ok", "yaml" (open or yaml.safe_load raises) or
\* "fetch" (the generator raises after it has delivered failAt records).
\* The result is what the two globals hold when the body ends or raises.
RECURSIVE BuildRows(_, _, _, _, _, _, _)
BuildRows(rs, ud, k, outcome, failAt, data, names) ==
    IF outcome = "yaml"
    THEN [raised |-> "yaml", data |-> data, names |-> names]
    ELSE IF outcome = "fetch" /\ failAt = k - 1
    THEN [raised |-> "fetch", data |-> data, names |-> names]
    ELSE IF k > Len(rs)
    THEN [raised |-> "", data |-> SortByOrder(data), names |-> names]
    ELSE LET row == rs[k]
         IN  IF IsAggregate(row)
             THEN BuildRows(rs, ud, k + 1, outcome, failAt, data, names)
             ELSE LET names2 == Put(names, row.id, row.name)
                      got    == Get(ud, row.id, EmptyDict)
                      obj    == IF got.kind = "list"
                                THEN DictOf(TRUE, got.patterns, FALSE, DefaultOrder)
                                ELSE got
                  IN  IF obj.kind # "dict"
                      THEN [raised |-> "AttributeError", data |-> data, names |-> names2]
                      ELSE BuildRows(rs, ud, k + 1, outcome, failAt,
                                     data \o RowRules(row, obj), names2)

Build(rs, ud, outcome, failAt) == BuildRows(rs, ud, 1, outcome, failAt, <<>>, <<>>)

\* ---------------------------------------------------------------- the scan
\* the inner loop without its break statements: the last match wins
RECURSIVE ScanNoBreak(_, _, _, _)
ScanNoBreak(data, i, t2, excludes) ==
    IF i > Len(data) THEN Unresolved
    ELSE LET r == data[i]
             rest == ScanNoBreak(data, i + 1, t2,
                        IF r.id \notin excludes /\ r.mode = 2 /\ Search(r.pattern, t2)
                        THEN excludes \cup {r.id} ELSE excludes)
         IN  IF r.id \notin excludes /\ rest = Unresolved
                /\ ((r.mode = 1 /\ Search(r.pattern, t2)) \/ (r.mode = 0 /\ r.pattern = t2))
             THEN r.id
             ELSE rest

\* the inner loop that never records an exclusion
RECURSIVE ScanNoExcludes(_, _, _, _)
ScanNoExcludes(data, i, t2, excludes) ==
    IF i > Len(data) THEN Unresolved
    ELSE LET r == data[i]
         IN  IF r.mode = 1 /\ Search(r.pattern, t2) THEN r.id
             ELSE IF r.mode = 0 /\ r.pattern = t2 THEN r.id
             ELSE ScanNoExcludes(data, i + 1, t2, excludes)

\* the inner loop over _lookup_data for one input, from rule i on
RECURSIVE Scan(_, _, _, _)
Scan(data, i, t2, excludes) ==
    IF i > Len(data) THEN Unresolved
    ELSE LET r == data[i]
         IN  IF r.id \in excludes THEN Scan(data, i + 1, t2, excludes)
             ELSE IF r.mode = 2 /\ Search(r.pattern, t2)
             THEN Scan(data, i + 1, t2, excludes \cup {r.id})
             ELSE IF r.mode = 1 /\ Search(r.pattern, t2) THEN r.id
             ELSE IF r.mode = 0 /\ r.pattern = t2 THEN r.id
             ELSE Scan(data, i + 1, t2, excludes)

\* the outer loop "for t in name", from element n on
RECURSIVE MatchLoop(_, _, _, _)
MatchLoop(data, name, n, results) ==
    IF n > Len(name) THEN results
    ELSE LET t    == name[n]
             code == Scan(data, 1, prepare(t, TRUE, FALSE), {})
         IN  MatchLoop(data, name, n + 1,
                       IF code = Unresolved THEN results ELSE Put(results, t, code))

\* w.Coder({k: None for k in name})
EmptyResults(name) == [ k \in Range(name) |-> Unresolved ]

\* the filter lambda without its two lower() calls
IsAnomalyCaseSensitive(k, v, names) ==
    IF v # Unresolved /\ v # <<>> THEN k # Get(names, v, <<>>) ELSE TRUE

\* the lambda of the summary filter, on one item
IsAnomaly(k, v, names) ==
    IF v # Unresolved /\ v # <<>> THEN Lower(k) # Lower(Get(names, v, <<>>)) ELSE TRUE

\* w.Coder(dict(filter(..., results.items())))
Summarize(results, names) ==
    [ k \in { x \in DOMAIN results : IsAnomaly(x, results[x], names) } |-> results[k] ]

\* coder with is_list left True for a single string
ReturnAlwaysMapping(data, names, name, kind, summary) ==
    LET looped  == IF kind = "iter" THEN <<>> ELSE name
        results == MatchLoop(data, looped, 1, EmptyResults(name))
    IN  [type |-> "Coder", value |-> Unresolved,
         items |-> IF summary THEN Summarize(results, names) ELSE results]

\* coder with "if is_list" in place of "if is_list or summary"
ReturnByTypeOnly(data, names, name, kind, summary) ==
    LET looped  == IF kind = "iter" THEN <<>> ELSE name
        results == MatchLoop(data, looped, 1, EmptyResults(name))
    IN  IF kind # "str"
        THEN [type |-> "Coder", value |-> Unresolved,
              items |-> IF summary THEN Summarize(results, names) ELSE results]
        ELSE [type |-> "scalar", value |-> Get(results, name[1], Unresolved), items |-> <<>>]

\* what coder returns once the rule table is there.  kind is the type of the
\* argument: "str", "list" (any iterable that can be iterated again) or "iter"
\* (an iterator or generator, exhausted by building the keys of results).
\* pandas is taken to be absent (pd is None), so results is always a w.Coder.
Return(data, names, name, kind, summary) ==
    LET is_list == kind # "str"
        looped  == IF kind = "iter" THEN <<>> ELSE name
        results == MatchLoop(data, looped, 1, EmptyResults(name))
    IN  IF is_list \/ summary
        THEN [type |-> "Coder", value |-> Unresolved,
              items |-> IF summary THEN Summarize(results, names) ELSE results]
        ELSE [type |-> "scalar", value |-> Get(results, name[1], Unresolved), items |-> <<>>]

\* -------------------------------------------------- the worlds explored
\* codes
c_GIN == <<"G","I","N">>
c_GNB == <<"G","N","B">>
c_WLD == <<"W","L","D">>
c_SWZ == <<"S","W","Z">>
c_USA == <<"U","S","A">>
c_VIR == <<"V","I","R">>
c_COD == <<"C","O","D">>
c_COG == <<"C","O","G">>
c_KNA == <<"K","N","A">>
c_ARB == <<"A","R","B">>
c_CIV == <<"C","I","V">>
c_ZZZ == <<"Z","Z","Z">>

\* names
n_Guinea == <<"G","u","i","n","e","a">>
n_GuineaBissau == <<"G","u","i","n","e","a","-","B","i","s","s","a","u">>
n_World == <<"W","o","r","l","d">>
n_Eswatini == <<"E","s","w","a","t","i","n","i">>
n_UnitedStates == <<"U","n","i","t","e","d"," ","S","t","a","t","e","s">>
n_VirginIslandsUS == <<"V","i","r","g","i","n"," ","I","s","l","a","n","d","s"," ","(","U",".","S",".",")">>
n_CongoDemRep == <<"C","o","n","g","o",","," ","D","e","m","."," ","R","e","p",".">>
n_CongoRep == <<"C","o","n","g","o",","," ","R","e","p",".">>
n_StKittsAndNevis == <<"S","t","."," ","K","i","t","t","s"," ","a","n","d"," ","N","e","v","i","s">>
n_ArabWorld == <<"A","r","a","b"," ","W","o","r","l","d">>
n_CoteDIvoire == <<"C","o","t","e"," ","d","'","I","v","o","i","r","e">>
n_Unnamed == <<"(","n","o","n","e",")">>

\* override patterns
p_swaziland == <<"S","w","a","z","i","l","a","n","d">>
p_us_dot == <<"u","s",".">>
p_dr_congo == <<"d","r"," ","c","o","n","g","o">>
p_not_dem == <<"~","d","e","m">>
p_congo == <<"c","o","n","g","o">>
p_exact_skn == <<":","S","K","N">>
p_arab == <<"a","r","a","b">>

\* what callers pass
i_usa == <<"u","s","a">>
i_Usa == <<"U","s","a">>
i_gin == <<"g","i","n">>
i_gnb == <<"g","n","b">>
i_Cog == <<"C","o","g">>
i_GuineaUpper == <<"G","U","I","N","E","A">>
i_Swaziland == <<"S","w","a","z","i","l","a","n","d">>
i_ESWATINI == <<"E","S","W","A","T","I","N","I">>
i_Toronto == <<"T","o","r","o","n","t","o">>
i_VirginIslandsUS == <<"V","i","r","g","i","n"," ","I","s","l","a","n","d","s"," ","(","U","S",")">>
i_Congo == <<"C","o","n","g","o">>
i_CongoDem == <<"C","o","n","g","o"," ","D","e","m">>
i_DemCongoRep == <<"d","e","m"," ","C","o","n","g","o"," ","R","e","p">>
i_DRCongo == <<"D","R"," ","C","o","n","g","o">>
i_SaintKitts == <<"S","a","i","n","t"," ","K","i","t","t","s"," ","&"," ","N","e","v","i","s">>
i_skn == <<"s","k","n">>
i_civ == <<"c","i","v">>
i_world == <<"w","o","r","l","d">>

\* A world is what the collaborators hold (the records w.fetch('country/all')
\* delivers, the content of lookup-data.yaml) and what callers ask about:
\* strs are the single strings passed, elems the elements of the collections.
World(rs, ud, strs, elems) == [rows |-> rs, user_data |-> ud, strs |-> strs, elems |-> elems]

\* an aggregate and two countries, the name of one a word of the other's
WorldGuinea ==
    World(<< Row(c_WLD, n_World, "NA"), Row(c_GIN, n_Guinea, "SSF"),
             Row(c_GNB, n_GuineaBissau, "SSF") >>,
          <<>>,
          { n_World, c_WLD, n_Guinea, i_GuineaUpper, n_GuineaBissau, i_gnb, i_gin, i_Toronto },
          { n_Guinea, n_GuineaBissau })

\* a renamed country, and an override of higher priority with a wildcard
WorldStates ==
    World(<< Row(c_SWZ, n_Eswatini, "SSF"), Row(c_USA, n_UnitedStates, "NAC"),
             Row(c_VIR, n_VirginIslandsUS, "LCN") >>,
          (c_SWZ :> ListOf(<<p_swaziland>>)) @@ (c_VIR :> DictOf(TRUE, <<p_us_dot>>, TRUE, 5)),
          { i_Swaziland, n_Eswatini, i_ESWATINI, i_usa, i_Usa, c_USA, n_UnitedStates,
            i_VirginIslandsUS, n_VirginIslandsUS },
          { i_Swaziland, n_Eswatini })

\* two countries told apart by an exclude pattern
WorldCongo ==
    World(<< Row(c_COD, n_CongoDemRep, "SSF"), Row(c_COG, n_CongoRep, "SSF") >>,
          (c_COD :> ListOf(<<p_dr_congo>>)) @@ (c_COG :> ListOf(<<p_not_dem, p_congo>>)),
          { i_Congo, i_CongoDem, i_DemCongoRep, i_DRCongo, n_CongoRep, n_CongoDemRep, i_Cog },
          { i_CongoDem, i_Congo })

\* an override entry that is neither a list nor a mapping
WorldScalarEntry ==
    World(<< Row(c_KNA, n_StKittsAndNevis, "LCN"), Row(c_ARB, n_ArabWorld, "NA"),
             Row(c_CIV, n_CoteDIvoire, "SSF") >>,
          (c_KNA :> DictOf(TRUE, <<p_exact_skn>>, FALSE, DefaultOrder))
            @@ (c_ARB :> ListOf(<<p_arab>>)) @@ (c_CIV :> ScalarValue),
          { n_StKittsAndNevis, i_SaintKitts, i_skn, i_civ, n_ArabWorld, i_Toronto },
          { i_skn, i_civ })

\* an override entry that is a mapping without patterns
WorldNoPatterns ==
    World(<< Row(c_KNA, n_StKittsAndNevis, "LCN"), Row(c_CIV, n_CoteDIvoire, "SSF") >>,
          (c_KNA :> DictOf(TRUE, <<p_exact_skn>>, TRUE, 20))
            @@ (c_CIV :> DictOf(FALSE, <<>>, TRUE, 5)),
          { n_StKittsAndNevis, i_SaintKitts, i_skn, i_civ, n_CoteDIvoire, c_KNA },
          { i_SaintKitts, n_CoteDIvoire })

\* a country whose name is all in parentheses
WorldUnnamed ==
    World(<< Row(c_ZZZ, n_Unnamed, "ECS"), Row(c_USA, n_UnitedStates, "NAC") >>,
          <<>>,
          { n_Unnamed, c_ZZZ, i_usa, n_UnitedStates, i_Toronto },
          { n_Unnamed, i_usa })

Worlds == { WorldGuinea, WorldStates, WorldCongo, WorldScalarEntry, WorldNoPatterns, WorldUnnamed }

\* the longest collection a caller passes
MaxNames == 2

\* the sequences over S of length at most n
RECURSIVE SeqsUpTo(_, _)
SeqsUpTo(S, n) ==
    IF n = 0 THEN { <<>> }
    ELSE LET shorter == SeqsUpTo(S, n - 1)
         IN  shorter \cup { Append(q, x) : q \in { r \in shorter : Len(r) = n - 1 }, x \in S }

\* ------------------------------------------------------------- the state
VARIABLES
    rows,         \* the records w.fetch('country/all', lang='en') delivers
    user_data,    \* the content of lookup-data.yaml
    lookup_data,  \* _lookup_data
    coder_names,  \* _coder_names
    fetches,      \* how many times w.fetch was called
    loads,        \* how many times lookup-data.yaml was opened
    failed,       \* has a coder call raised out of the build
    last,         \* the last coder call: its arguments and how it ended
    threads,      \* the coder call of each thread: where it stands, what it holds
    lang,                \* w.lang
    localized_metadata,  \* economy._localized_metadata
    iso2Codes,           \* economy._iso2Codes
    class_data,          \* economy._class_data
    aggs,                \* economy._aggs
    completed,           \* the languages for which update_caches ran to its end
    lastU                \* the last update_caches call: what it found and how it ended

coderVars == <<rows, user_data, lookup_data, coder_names, fetches, loads, failed, last, threads>>

cacheVars == <<lang, localized_metadata, iso2Codes, class_data, aggs, completed, lastU>>

vars == <<coderVars, cacheVars>>

TheWorld == CHOOSE w \in Worlds : w.rows = rows /\ w.user_data = user_data

NoReturn == [type |-> "none", value |-> Unresolved, items |-> <<>>]

\* the threads of the process that call coder
Threads == {"t1", "t2"}

\* _aggs while it is None
NoneSet == [none |-> TRUE, val |-> {}]

\* a thread that has not called coder
Idle == [pc |-> "idle", name |-> <<>>, k |-> 0, partial |-> FALSE, ret |-> NoReturn]

Init ==
    /\ \E w \in Worlds : rows = w.rows /\ user_data = w.user_data
    /\ lookup_data = NoneVal
    /\ coder_names = NoneVal
    /\ fetches = 0
    /\ loads = 0
    /\ failed = FALSE
    /\ last = [kind |-> "none", name |-> <<>>, summary |-> FALSE, built |-> FALSE,
               raised |-> "", ret |-> NoReturn]
    /\ threads = [ th \in Threads |-> Idle ]
    /\ lang = "en"
    /\ localized_metadata = <<>>
    /\ iso2Codes = <<>>
    /\ class_data = NoneVal
    /\ aggs = NoneSet
    /\ completed = {}
    /\ lastU = [called |-> FALSE, lang |-> "en", data |-> "full", fetched |-> 0,
                raised |-> "", wasCompleted |-> FALSE,
                before |-> [lm |-> <<>>, iso |-> <<>>, cd |-> NoneVal, ag |-> NoneSet]]

\* a test that sends every call into the build
MustBuildAlways(cache) == TRUE

\* the test "if _lookup_data is None"
MustBuild(cache) == cache = NoneVal

\* coder(name, summary): name is the argument as the sequence of its elements
\* (a single string is the one-element sequence), kind its type
coder(name, kind, summary, outcome, failAt) ==
    LET building == MustBuild(lookup_data)
        b        == Build(rows, user_data, outcome, failAt)
        data     == IF building THEN b.data ELSE lookup_data.val
        names    == IF building THEN b.names ELSE coder_names.val
        raised   == IF building THEN b.raised ELSE ""
    IN  /\ building \/ outcome = "ok"
        /\ outcome = "fetch" \/ failAt = 0
        /\ lookup_data' = Some(data)
        /\ coder_names' = Some(names)
        /\ fetches' = IF building /\ outcome # "yaml" THEN fetches + 1 ELSE fetches
        /\ loads' = IF building THEN loads + 1 ELSE loads
        /\ failed' = (failed \/ raised # "")
        /\ last' = [kind |-> kind, name |-> name, summary |-> summary, built |-> building,
                    raised |-> raised,
                    ret |-> IF raised # "" THEN NoReturn
                            ELSE Return(data, names, name, kind, summary)]
        /\ UNCHANGED <<rows, user_data, threads, cacheVars>>

Outcomes == {"ok", "yaml", "fetch"}

\* coder called with a single string
CoderStr ==
    \E t \in TheWorld.strs, summary \in BOOLEAN, outcome \in Outcomes, failAt \in 0..Len(rows) :
        coder(<<t>>, "str", summary, outcome, failAt)

\* coder called with a collection of strings
CoderCollection ==
    \E name \in SeqsUpTo(TheWorld.elems, MaxNames), kind \in {"list", "iter"},
       summary \in BOOLEAN, outcome \in Outcomes, failAt \in 0..Len(rows) :
        coder(name, kind, summary, outcome, failAt)

Next == CoderStr \/ CoderCollection

Spec == Init /\ [][Next]_vars

\* ------------------------------------------------- reading the state
\* the records that are not aggregates
Entities == { rows[k] : k \in { j \in DOMAIN rows : rows[j].region # "NA" } }

\* the aggregates among the records
Aggregates == { rows[k] : k \in { j \in DOMAIN rows : rows[j].region = "NA" } }

\* the rule table as it stands (empty while _lookup_data is None)
Table == lookup_data.val

\* has the last call returned a value
Returned == last.kind # "none" /\ last.raised = ""

\* has the last call looped over its inputs
Scanned == Returned /\ last.kind \in {"str", "list"}

\* does the value returned say something about input t, and what
Gives(t) == last.ret.type = "scalar" \/ t \in DOMAIN last.ret.items

Given(t) == IF last.ret.type = "scalar" THEN last.ret.value ELSE last.ret.items[t]

\* the normalized input
Norm(t) == prepare(t, TRUE, FALSE)

\* does rule r match the normalized input as a rule that produces a result
RuleMatches(r, t2) ==
    \/ r.mode = 1 /\ Search(r.pattern, t2)
    \/ r.mode = 0 /\ r.pattern = t2

\* does an exclude rule r match the normalized input
ExcludeMatches(r, t2) == r.mode = 2 /\ Search(r.pattern, t2)

\* has an exclude rule standing before rule i put rule i's code aside
Excluded(data, i, t2) ==
    \E j \in 1..(i - 1) : data[j].id = data[i].id /\ ExcludeMatches(data[j], t2)

\* the rules that match and are not put aside
Winners(data, t2) ==
    { i \in 1..Len(data) : RuleMatches(data[i], t2) /\ ~ Excluded(data, i, t2) }

\* the code of the first of them, or the unresolved marker
FirstMatch(data, t2) ==
    IF Winners(data, t2) = {} THEN Unresolved
    ELSE data[CHOOSE i \in Winners(data, t2) : \A k \in Winners(data, t2) : i <= k].id

C2_ExcludedNeverResolves ==
    Scanned =>
      \A t \in Range(last.name) : \A i, k \in DOMAIN Table :
         ( /\ i < k
           /\ Table[k].id = Table[i].id
           /\ ExcludeMatches(Table[i], Norm(t))
           /\ RuleMatches(Table[k], Norm(t))
           /\ Gives(t) )
         => Given(t) # Table[i].id

\* C2 as amended: all rules of one code have the same priority, so an exclude
\* rule stands before the override patterns listed after it and behind the
\* code's exact-code and name rules; an input that matches an exclude rule of
\* code C resolves to C only through a rule of C that stands before that
\* exclude rule and matches: no rule of C behind the exclude rule and not the
\* exclude rule itself gives C.
C2_ExcludeBeatsLaterRules ==
    /\ \A i, k \in DOMAIN Table : Table[i].id = Table[k].id => Table[i].order = Table[k].order
    /\ Scanned =>
         \A t \in Range(last.name) : \A i \in DOMAIN Table :
            ( /\ ExcludeMatches(Table[i], Norm(t))
              /\ Gives(t)
              /\ Given(t) = Table[i].id )
            => \E h \in 1..(i - 1) :
                  Table[h].id = Table[i].id /\ RuleMatches(Table[h], Norm(t))

\* an input matched an exclude rule of a code and a later rule of that code,
\* and came out unresolved
C2_Witness ==
    /\ Scanned
    /\ \E t \in Range(last.name) : \E i, k \in DOMAIN Table :
          /\ i < k
          /\ Table[k].id = Table[i].id
          /\ ExcludeMatches(Table[i], Norm(t))
          /\ RuleMatches(Table[k], Norm(t))
          /\ Gives(t)
          /\ Given(t) = Unresolved

\* ------------------------------------------------------------------ C3
\* C3: for every fetched record whose region id is "NA", no rule of the rule
\* table targets its id, the canonical-name table holds neither its id nor
\* its name, and no value coder returns is its id.
C3_AggregatesNeverResolve ==
    \A a \in Aggregates :
       /\ \A i \in DOMAIN Table : Table[i].id # a.id
       /\ a.id \notin DOMAIN coder_names.val
       /\ \A c \in DOMAIN coder_names.val : coder_names.val[c] # a.name
       /\ Returned =>
            /\ last.ret.type = "scalar" => last.ret.value # a.id
            /\ \A t \in DOMAIN last.ret.items : last.ret.items[t] # a.id

\* the table was built from records that hold an aggregate, and a caller who
\* asked for the aggregate by its code or its name got None
C3_Witness ==
    /\ Scanned /\ ~ failed /\ Table # <<>>
    /\ \E a \in Aggregates : \E t \in Range(last.name) :
          /\ Lower(t) = Lower(a.id) \/ t = a.name
          /\ Gives(t)
          /\ Given(t) = Unresolved

\* ------------------------------------------------------------ C4, C5
\* are the rules of entity E in the rule table
Loaded(E) == \E i \in DOMAIN Table : Table[i].id = E.id

\* where the exact-code rule of a loaded entity stands: the first of its rules
CodeRuleAt(E) ==
    CHOOSE i \in DOMAIN Table :
       Table[i].id = E.id /\ \A k \in 1..(i - 1) : Table[k].id # E.id

\* does a rule of another entity that stands before E's rules match
Preempted(E, t2) ==
    \E h \in 1..(CodeRuleAt(E) - 1) : Table[h].id # E.id /\ RuleMatches(Table[h], t2)

\* a code in upper case, in lower case and capitalised
CaseVariants(code) ==
    { code, Lower(code), <<code[1]>> \o Lower(Slice(code, 2, Len(code))) }

\* C4 as claimed: whatever else the table holds, coder(E.code) in any letter
\* case resolves to E.code, for every entity E of a completely built table.
C4_CodeAlwaysResolves ==
    (Scanned /\ ~ failed) =>
      \A E \in Entities : \A t \in Range(last.name) :
         (Lower(t) = Lower(E.id) /\ Gives(t)) => Given(t) = E.id

\* C4 as amended: for every entity E whose rules are in the table, coder(E.code)
\* in any letter case resolves to E.code unless a rule of another entity that
\* stands before E's exact-code rule (a rule of lower order, or of the same
\* order from a record fetched earlier) matches the lower-cased code; then
\* that rule wins.  No rule of E itself stands before its exact-code rule.
C4_CodeResolvesUnlessPreempted ==
    \A E \in Entities : Loaded(E) =>
       /\ Table[CodeRuleAt(E)] = Rule(Lower(E.id), E.id, 0, Table[CodeRuleAt(E)].order)
       /\ \A v \in CaseVariants(E.id) :
             \/ Scan(Table, 1, Norm(v), {}) = E.id
             \/ Preempted(E, Norm(v))
       /\ Scanned =>
            \A t \in Range(last.name) :
               (Lower(t) = Lower(E.id) /\ Gives(t)) =>
                  (Given(t) = E.id \/ Preempted(E, Norm(t)))

\* a caller passed a code in another letter case than the catalog's, beside
\* rules of other entities, and got the code
C4_Witness ==
    /\ Scanned /\ ~ failed
    /\ \E E \in Entities : \E t \in Range(last.name) :
          /\ t # E.id /\ Lower(t) = Lower(E.id)
          /\ CodeRuleAt(E) > 1
          /\ Gives(t) /\ Given(t) = E.id

\* does the normalized name start and end with a word character
WordEdged(t2) == t2 # <<>> /\ IsWord(t2[1]) /\ IsWord(t2[Len(t2)])

\* C5 as claimed: whatever else the table holds, coder(E.displayName) resolves
\* to E.code, for every entity E of a completely built table.
C5_NameAlwaysResolves ==
    (Scanned /\ ~ failed) =>
      \A E \in Entities : \A t \in Range(last.name) :
         (t = E.name /\ Gives(t)) => Given(t) = E.id

\* C5 as amended: for every entity E whose rules are in the table and whose
\* normalized name starts and ends with a word character, the name rule of E
\* (the rule right after its exact-code rule) matches the normalized name, and
\* coder(E.displayName) resolves to E.code unless a rule of another entity
\* that stands before E's rules matches the normalized name; then that rule
\* wins.
C5_NameResolvesUnlessPreempted ==
    \A E \in Entities : (Loaded(E) /\ WordEdged(Norm(E.name))) =>
       /\ CodeRuleAt(E) + 1 \in DOMAIN Table
       /\ Table[CodeRuleAt(E) + 1].id = E.id
       /\ Table[CodeRuleAt(E) + 1].mode = 1
       /\ Search(Table[CodeRuleAt(E) + 1].pattern, Norm(E.name))
       /\ \/ Scan(Table, 1, Norm(E.name), {}) = E.id
          \/ Preempted(E, Norm(E.name))
       /\ Scanned =>
            \A t \in Range(last.name) :
               (t = E.name /\ Gives(t)) => (Given(t) = E.id \/ Preempted(E, Norm(t)))

\* a caller passed a canonical name that the clean pass changes, beside rules
\* of other entities, and got the entity's code
C5_Witness ==
    /\ Scanned /\ ~ failed
    /\ \E E \in Entities : \E t \in Range(last.name) :
          /\ t = E.name
          /\ Norm(t) # Lower(t)
          /\ CodeRuleAt(E) > 1
          /\ Gives(t) /\ Given(t) = E.id

\* ------------------------------------------------------------ C6, C7
\* C6 as claimed: a single string always gets the bare value, any other
\* iterable always a mapping with exactly one entry per distinct input.
C6_ScalarOrMapping ==
    Returned =>
      /\ last.kind = "str" => last.ret.type = "scalar"
      /\ last.kind # "str" =>
           (last.ret.type = "Coder" /\ DOMAIN last.ret.items = Range(last.name))

\* C6 as amended: when summary is False (and the argument is no pandas
\* Series), a single string gets the bare value, a code or None, never a
\* collection, and any other iterable of strings gets a mapping with exactly
\* one entry per distinct input string.
C6_ScalarOrMappingWithoutSummary ==
    (Returned /\ ~ last.summary) =>
      /\ last.kind = "str" =>
           /\ last.ret.type = "scalar"
           /\ last.ret.value = FirstMatch(Table, Norm(last.name[1]))
      /\ last.kind # "str" =>
           (last.ret.type = "Coder" /\ DOMAIN last.ret.items = Range(last.name))

\* a collection that names one string twice came back as a mapping of one entry
C6_Witness ==
    /\ Returned /\ ~ last.summary /\ last.kind = "list"
    /\ Len(last.name) = 2
    /\ last.ret.type = "Coder"
    /\ Cardinality(DOMAIN last.ret.items) = 1

\* C7: with summary True coder returns a Coder mapping whatever the type of
\* name, a single string included.
C7_SummaryReturnsCoder ==
    (Returned /\ last.summary) => last.ret.type = "Coder"

\* a single string passed with summary True came back as a mapping
C7_Witness ==
    /\ Returned /\ last.summary /\ last.kind = "str"
    /\ last.ret.type = "Coder"
    /\ DOMAIN last.ret.items = {last.name[1]}

\* ------------------------------------------------------------------ C8
\* the full match mapping of the last call
FullMapping ==
    [ t \in Range(last.name) |->
        IF last.kind = "iter" THEN Unresolved ELSE FirstMatch(Table, Norm(t)) ]

\* the canonical display name of a code, '' when there is none
CanonicalName(code) == Get(coder_names.val, code, <<>>)

\* C8: with summary True the mapping returned holds exactly the entries of the
\* full match mapping whose code is None or whose canonical name differs,
\* compared case-insensitively, from the input; each keeps its key and value.
C8_SummaryFilter ==
    (Returned /\ last.summary) =>
      LET keep == { t \in Range(last.name) :
                      \/ FullMapping[t] = Unresolved
                      \/ Lower(CanonicalName(FullMapping[t])) # Lower(t) }
      IN  /\ DOMAIN last.ret.items = keep
          /\ \A t \in keep : last.ret.items[t] = FullMapping[t]

\* of two inputs that resolve, the one that is the canonical name in another
\* letter case or the same was dropped and the renamed one was kept
C8_Witness ==
    /\ Returned /\ last.summary /\ last.kind = "list"
    /\ \E t, u \in Range(last.name) :
          /\ t \notin DOMAIN last.ret.items
          /\ u \in DOMAIN last.ret.items
          /\ last.ret.items[u] # Unresolved

\* ----------------------------------------------------------------- C9, C10
\* C9: when the build raises, both caches are left un-populated (None), so
\* that every value coder returns comes from a completely built table.
C9_FailedBuildLeavesNoCache ==
    /\ last.raised # "" => (lookup_data = NoneVal /\ coder_names = NoneVal)
    /\ Returned => Table = Build(rows, user_data, "ok", 0).data

\* is an override entry neither a list nor a mapping with patterns
Malformed(obj) == ~ (obj.kind = "list" \/ (obj.kind = "dict" /\ obj.hasPatterns))

\* C10: a build that reads a malformed override entry of a fetched entity
\* raises; it never completes with the entity taken as one without overrides.
C10_MalformedEntryFailsBuild ==
    (last.built /\ last.raised = "") =>
      \A E \in Entities :
         E.id \in DOMAIN user_data => ~ Malformed(user_data[E.id])

\* ------------------------------------------------------------------ C14
\* C14: once a coder call has put a rule table into _lookup_data, no later
\* coder call, whatever its arguments, fetches, opens the override catalog or
\* changes the rule table or the canonical-name table (their order included).
C14_BuiltAtMostOnce ==
    [][ lookup_data # NoneVal =>
          /\ lookup_data' = lookup_data
          /\ coder_names' = coder_names
          /\ fetches' = fetches
          /\ loads' = loads ]_vars

\* a call that found the table built returned a code, after one fetch and one
\* load in all
C14_Witness ==
    /\ Scanned /\ ~ last.built /\ ~ failed
    /\ fetches = 1 /\ loads = 1
    /\ \E t \in Range(last.name) : Gives(t) /\ Given(t) # Unresolved

\* ------------------------------------------------------------------ C16
\* the override entry of a record as the build reads it: a list stands for
\* its patterns under the default priority
EntryOf(E) ==
    LET got == Get(user_data, E.id, EmptyDict)
    IN  IF got.kind = "list"
        THEN DictOf(TRUE, got.patterns, FALSE, DefaultOrder)
        ELSE got

\* the rules generated for an entity, in generation order
Generated(E) == RowRules(E, EntryOf(E))

\* the priority of an entity's rules
PriorityOf(E) == Generated(E)[1].order

\* has the one build of this process run to its end
BuiltWhole == lookup_data # NoneVal /\ ~ failed

\* C16: after a successful build the rule table is ascending in priority; the
\* rules of each entity stand together as exact-code rule, name-regex rule,
\* then its override rules in catalog order, and the table holds no other
\* rule; of two entities of equal priority the one fetched first stands first.
C16_StableSortedTable ==
    BuiltWhole =>
      /\ \A i, j \in DOMAIN Table : i < j => Table[i].order <= Table[j].order
      /\ \A E \in Entities :
            /\ Loaded(E)
            /\ LET g == Generated(E)
                   at == CodeRuleAt(E)
               IN  /\ at + Len(g) - 1 <= Len(Table)
                   /\ \A k \in 1..Len(g) : Table[at + k - 1] = g[k]
                   /\ g[1].mode = 0 /\ g[2].mode = 1
                   /\ \A i \in DOMAIN Table :
                         Table[i].id = E.id => i \in at..(at + Len(g) - 1)
      /\ \A i \in DOMAIN Table : \E E \in Entities : Table[i].id = E.id
      /\ \A k1, k2 \in DOMAIN rows :
            ( /\ k1 < k2
              /\ rows[k1] \in Entities /\ rows[k2] \in Entities
              /\ PriorityOf(rows[k1]) = PriorityOf(rows[k2]) )
            => CodeRuleAt(rows[k1]) < CodeRuleAt(rows[k2])

\* a whole table in which the sort has moved an entity before one fetched
\* earlier, two entities share a priority and one of them has an override rule
C16_Witness ==
    /\ BuiltWhole
    /\ \E k1, k2 \in DOMAIN rows :
          /\ k1 < k2 /\ rows[k1] \in Entities /\ rows[k2] \in Entities
          /\ CodeRuleAt(rows[k2]) < CodeRuleAt(rows[k1])
    /\ \E k1, k2 \in DOMAIN rows :
          /\ k1 < k2 /\ rows[k1] \in Entities /\ rows[k2] \in Entities
          /\ PriorityOf(rows[k1]) = PriorityOf(rows[k2])
          /\ Len(Generated(rows[k1])) > 2

\* ------------------------------------------------------------------ C15
\* what coder(t) returns for the single string t with the table as it stands
Alone(t) == Return(Table, coder_names.val, <<t>>, "str", FALSE).value

\* C15 as claimed: in the mapping a coder call returns for a collection, the
\* value stored for each input t is what coder(t) returns for t on its own
\* with the same rule table, whatever the other inputs and their order.
C15_NoHiddenState ==
    (Returned /\ last.kind \in {"list", "iter"}) =>
        \A t \in DOMAIN last.ret.items : last.ret.items[t] = Alone(t)

\* ------------------------------------------------------------------ C13
\* coder called from several threads.  The module holds no lock, so a thread
\* can be switched out between any two statements; the steps below are the
\* statements of the build that touch the globals (the fetch generator waits
\* for the network before every record), the sort and the scan each taken as
\* one step.  The collaborators do not fail here.

\* the table a build that nothing disturbs ends with
WholeTable == Build(rows, user_data, "ok", 0).data

\* a thread calls coder(t) and tests "if _lookup_data is None"
T_Call(th) ==
    /\ threads[th].pc = "idle"
    /\ \E t \in TheWorld.elems :
          threads' = [threads EXCEPT ![th].name = <<t>>,
                         ![th].pc = IF MustBuild(lookup_data) THEN "init" ELSE "match"]
    /\ UNCHANGED <<rows, user_data, lookup_data, coder_names, fetches, loads, failed, last, cacheVars>>

\* _lookup_data = []; _coder_names = {}
T_Init(th) ==
    /\ threads[th].pc = "init"
    /\ lookup_data' = Some(<<>>)
    /\ coder_names' = Some(<<>>)
    /\ threads' = [threads EXCEPT ![th].pc = "load"]
    /\ UNCHANGED <<rows, user_data, fetches, loads, failed, last, cacheVars>>

\* user_data = yaml.safe_load(...)
T_Load(th) ==
    /\ threads[th].pc = "load"
    /\ loads' = loads + 1
    /\ threads' = [threads EXCEPT ![th].pc = "fetch"]
    /\ UNCHANGED <<rows, user_data, lookup_data, coder_names, fetches, failed, last, cacheVars>>

\* w.fetch('country/all', ...): the request is issued
T_Fetch(th) ==
    /\ threads[th].pc = "fetch"
    /\ fetches' = fetches + 1
    /\ threads' = [threads EXCEPT ![th].pc = "rows", ![th].k = 1]
    /\ UNCHANGED <<rows, user_data, lookup_data, coder_names, loads, failed, last, cacheVars>>

\* one turn of "for row in w.fetch(...)": the rules of the record are appended
\* to whatever list the global names at that moment
T_Row(th) ==
    /\ threads[th].pc = "rows"
    /\ threads[th].k <= Len(rows)
    /\ LET row == rows[threads[th].k]
       IN  IF IsAggregate(row)
           THEN /\ threads' = [threads EXCEPT ![th].k = @ + 1]
                /\ UNCHANGED <<lookup_data, coder_names, failed>>
           ELSE /\ coder_names' = Some(Put(coder_names.val, row.id, row.name))
                /\ IF EntryOf(row).kind # "dict"
                   THEN /\ threads' = [threads EXCEPT ![th].pc = "raised"]
                        /\ failed' = TRUE
                        /\ UNCHANGED lookup_data
                   ELSE /\ lookup_data' = Some(lookup_data.val \o Generated(row))
                        /\ threads' = [threads EXCEPT ![th].k = @ + 1]
                        /\ UNCHANGED failed
    /\ UNCHANGED <<rows, user_data, fetches, loads, last, cacheVars>>

\* _lookup_data.sort(key=lambda x: x[3]), once the generator is exhausted
T_Sort(th) ==
    /\ threads[th].pc = "rows"
    /\ threads[th].k > Len(rows)
    /\ lookup_data' = Some(SortByOrder(lookup_data.val))
    /\ threads' = [threads EXCEPT ![th].pc = "match"]
    /\ UNCHANGED <<rows, user_data, coder_names, fetches, loads, failed, last, cacheVars>>

\* lines 118-165: the thread scans the table as it stands and returns
T_Match(th) ==
    /\ threads[th].pc = "match"
    /\ threads' = [threads EXCEPT
                      ![th].pc = "done",
                      ![th].partial = (lookup_data.val # WholeTable),
                      ![th].ret = Return(lookup_data.val, coder_names.val,
                                         threads[th].name, "str", FALSE)]
    /\ UNCHANGED <<rows, user_data, lookup_data, coder_names, fetches, loads, failed, last, cacheVars>>

NextThreads ==
    \E th \in Threads :
        \/ T_Call(th) \/ T_Init(th) \/ T_Load(th) \/ T_Fetch(th)
        \/ T_Row(th) \/ T_Sort(th) \/ T_Match(th)

SpecThreads == Init /\ [][NextThreads]_vars

\* C13 as claimed: when several threads make their first call to coder
\* concurrently, at most one populate pass runs (one catalog load, one fetch)
\* and no caller matches against a table that is not the completely built one.
C13_SingleFlight ==
    (\A th \in Threads : threads[th].pc # "raised") =>
        /\ fetches <= 1
        /\ loads <= 1
        /\ \A th \in Threads : threads[th].pc = "done" => ~ threads[th].partial

\* ------------------------------------------------- economy.update_caches
\* float() of a string of digits
RECURSIVE ParseFloat(_)
ParseFloat(s) ==
    IF s = <<>> THEN 0
    ELSE 10 * ParseFloat(SubSeq(s, 1, Len(s) - 1)) + (CHOOSE v \in 0..9 : ToString(v) = s[Len(s)])

\* a field of a classification record: None or a value
Missing(v) == [none |-> TRUE, val |-> v]

Held(v) == [none |-> FALSE, val |-> v]

\* _empty_meta_value
empty_meta_value == <<>>

\* a record of w.fetch('region'), which has a name and a code, or of
\* w.fetch('incomelevel') and w.fetch('lendingtype'), which have a value
ClassRow(id, code, iso2code, hasName, text) ==
    [id |-> id, code |-> code, iso2code |-> iso2code, hasName |-> hasName, text |-> text]

\* a record of w.fetch('country/all')
CountryRow(id, iso2Code, capitalCity, region, adminregion, lendingType, incomeLevel, longitude, latitude) ==
    [id |-> id, iso2Code |-> iso2Code, capitalCity |-> capitalCity, region |-> region,
     adminregion |-> adminregion, lendingType |-> lendingType, incomeLevel |-> incomeLevel,
     longitude |-> longitude, latitude |-> latitude]

\* the loop body of lines 118-123, on the pair of db and _iso2Codes
AddClass(st, row) ==
    [db  |-> IF row.hasName THEN Put(st.db, row.code, Strip(row.text))
             ELSE Put(st.db, row.id, Strip(row.text)),
     iso |-> Put(st.iso, row.id, row.iso2code)]

RECURSIVE FoldClass(_, _, _)
FoldClass(rs, k, st) ==
    IF k > Len(rs) THEN st ELSE FoldClass(rs, k + 1, AddClass(st, rs[k]))

\* the key 'capitalCity:' + id
CapitalKey(id) == <<"capitalCity:">> \o id

\* row['capitalCity'].strip() or _empty_meta_value
CapitalOf(row) ==
    IF Strip(row.capitalCity) # <<>> THEN Strip(row.capitalCity) ELSE empty_meta_value

\* the classification record built for a country record (lines 138-145)
ClassOf(row) ==
    LET aggregate == row.region = <<"N","A">>
        coord(v) == IF Len(v) # 0 THEN Held(ParseFloat(v)) ELSE Missing(0)
        class(v) == IF aggregate THEN Held(empty_meta_value)
                    ELSE IF v # <<>> THEN Held(v) ELSE Held(empty_meta_value)
    IN  [aggregate   |-> Held(aggregate),
         longitude   |-> coord(row.longitude),
         latitude    |-> coord(row.latitude),
         region      |-> class(row.region),
         adminregion |-> class(row.adminregion),
         lendingType |-> class(row.lendingType),
         incomeLevel |-> class(row.incomeLevel)]

\* {k: None for k in db.keys()}
DummyClass ==
    [aggregate   |-> Missing(FALSE),
     longitude   |-> Missing(0),
     latitude    |-> Missing(0),
     region      |-> Missing(<<>>),
     adminregion |-> Missing(<<>>),
     lendingType |-> Missing(<<>>),
     incomeLevel |-> Missing(<<>>)]

\* the '___' key, a country code and its capital city in two languages
Underscores == <<"_","_","_">>
c_BEL == <<"B","E","L">>
en_Brussels == <<"B","r","u","s","s","e","l","s"," ">>
fr_Brussels == <<"B","r","u","x","e","l","l","e","s">>

\* what w.fetch delivers in a language: one region, one income level, one
\* lending type, and two countries and an aggregate
Delivered(l) ==
    LET r_NA == <<"N","A">>
        r_NAC == <<"N","A","C">>
        r_ECS == <<"E","C","S">>
        v_HIC == <<"H","I","C">>
        v_LNX == <<"L","N","X">>
        iso_US == <<"U","S">>
        iso_BE == <<"B","E">>
        iso_1W == <<"1","W">>
        iso_XU == <<"X","U">>
        iso_XD == <<"X","D">>
        iso_XX == <<"X","X">>
        NorthAmerica == IF l = "en" THEN <<"N","o","r","t","h"," ","A","m","e","r","i","c","a">>
            ELSE <<"A","m","e","r","i","q","u","e"," ","d","u"," ","N","o","r","d">>
        HighIncome == IF l = "en" THEN <<"H","i","g","h"," ","i","n","c","o","m","e">>
            ELSE <<"R","e","v","e","n","u"," ","e","l","e","v","e">>
        NotClassified == IF l = "en" THEN <<"N","o","t"," ","c","l","a","s","s","i","f","i","e","d">>
            ELSE <<"N","o","n"," ","c","l","a","s","s","i","f","i","e">>
        Washington == IF l = "en" THEN <<"W","a","s","h","i","n","g","t","o","n"," ","D",".","C",".">>
            ELSE <<"W","a","s","h","i","n","g","t","o","n">>
        lon_USA == <<"7","7">>
        lat_USA == <<"3","8">>
        lon_BEL == <<"4">>
        lat_BEL == <<"5","0">>
        Brussels == IF l = "en" THEN en_Brussels ELSE fr_Brussels
    IN
    [region      |-> << ClassRow(<<>>, r_NAC, iso_XU, TRUE, NorthAmerica) >>,
     incomelevel |-> << ClassRow(v_HIC, v_HIC, iso_XD, FALSE, HighIncome) >>,
     lendingtype |-> << ClassRow(v_LNX, v_LNX, iso_XX, FALSE, NotClassified) >>,
     country     |-> << CountryRow(c_BEL, iso_BE, Brussels, r_ECS, <<>>, v_LNX, v_HIC,
                                   lon_BEL, lat_BEL),
                        CountryRow(c_WLD, iso_1W, <<>>, r_NA, <<>>, <<>>, <<>>, <<>>, <<>>),
                        CountryRow(c_USA, iso_US, Washington, r_NAC, <<>>, v_LNX, v_HIC,
                                   lon_USA, lat_USA) >>]

\* fetches that deliver no record at all
EmptyDelivery == [region |-> <<>>, incomelevel |-> <<>>, lendingtype |-> <<>>, country |-> <<>>]

\* the loop body of lines 135-148 on the language's table, _iso2Codes,
\* _class_data and _aggs
AddCountry(st, row) ==
    [tab |-> Put(st.tab, CapitalKey(row.id), CapitalOf(row)),
     iso |-> Put(st.iso, row.id, row.iso2Code),
     cd  |-> Put(st.cd, row.id, ClassOf(row)),
     ag  |-> IF ClassOf(row).aggregate.val THEN st.ag \cup {row.id, row.iso2Code} ELSE st.ag]

\* the loop body of line 157: only the capital city is stored
AddCapital(st, row) ==
    [st EXCEPT !.tab = Put(st.tab, CapitalKey(row.id), CapitalOf(row))]

RECURSIVE FoldCountry(_, _, _, _)
FoldCountry(rs, k, st, rebuild) ==
    IF k > Len(rs) THEN st
    ELSE FoldCountry(rs, k + 1, IF rebuild THEN AddCountry(st, rs[k]) ELSE AddCapital(st, rs[k]),
                     rebuild)

\* for elem in ['region', 'incomelevel', 'lendingtype']
elems == <<"region", "incomelevel", "lendingtype">>

\* the place of w.fetch('country/all') among the fetches of one pass
CountryFetch == Len(elems) + 1

\* lines 115-123: the three classification fetches, from fetch e on; failStage
\* is the fetch that raises (0 for none) after delivering failAt records
RECURSIVE ClassPhase(_, _, _, _, _)
ClassPhase(d, e, failStage, failAt, st) ==
    IF e > Len(elems) THEN [raised |-> "", st |-> st, fetched |-> Len(elems)]
    ELSE IF failStage = e
    THEN [raised |-> "fetch", st |-> FoldClass(SubSeq(d[elems[e]], 1, failAt), 1, st),
          fetched |-> e]
    ELSE ClassPhase(d, e + 1, failStage, failAt, FoldClass(d[elems[e]], 1, st))

\* a test that takes _class_data for unbuilt whatever it holds
IsDictNever(cd) == FALSE

\* type(_class_data) is dict
IsDict(cd) == ~ cd.none

\* _localized_metadata.get(w.lang) taken as a condition: a table that is
\* there and not empty
Cached(lm, l) == l \in DOMAIN lm /\ DOMAIN lm[l] # {}

\* update_caches() with w.lang = l, the fetches delivering d.  The result is
\* what the globals hold when the function returns or raises, how many fetches
\* it issued and what it raised.
update_caches(lm, iso, cd, ag, l, d, failStage, failAt) ==
    IF Cached(lm, l)
    THEN [lm |-> lm, iso |-> iso, cd |-> cd, ag |-> ag, fetched |-> 0, raised |-> ""]
    ELSE
    LET cp == ClassPhase(d, 1, failStage, failAt, [db |-> <<>>, iso |-> iso])
    IN  IF cp.raised # ""
        THEN [lm |-> lm, iso |-> cp.st.iso, cd |-> cd, ag |-> ag,
              fetched |-> cp.fetched, raised |-> cp.raised]
        ELSE
        LET rebuild == ~ IsDict(cd)
            rs  == IF failStage = CountryFetch THEN SubSeq(d.country, 1, failAt) ELSE d.country
            st0 == [tab |-> cp.st.db, iso |-> cp.st.iso,
                    cd  |-> IF rebuild THEN <<>> ELSE cd.val,
                    ag  |-> IF rebuild THEN {} ELSE ag.val]
            st  == FoldCountry(rs, 1, st0, rebuild)
            raised == IF failStage = CountryFetch THEN "fetch"
                      ELSE IF rebuild /\ c_USA \notin DOMAIN st.cd THEN "KeyError"
                      ELSE ""
            cd2 == IF rebuild /\ raised = "" THEN Put(st.cd, Underscores, DummyClass) ELSE st.cd
        IN  [lm |-> Put(lm, l, st.tab), iso |-> st.iso,
             cd |-> IF rebuild THEN Some(cd2) ELSE cd,
             ag |-> IF rebuild THEN [none |-> FALSE, val |-> st.ag] ELSE ag,
             fetched |-> CountryFetch, raised |-> raised]

\* the languages a caller sets
Langs == {"en", "fr"}

\* w.lang = l
SetLang ==
    /\ \E l \in Langs \ {lang} : lang' = l
    /\ UNCHANGED <<coderVars, localized_metadata, iso2Codes, class_data, aggs, completed, lastU>>

\* update_caches(), whoever calls it: data says what the fetches deliver,
\* failStage which of them raises (0 for none), failAt after how many records
UpdateCaches ==
    \E data \in {"full", "empty"}, failStage \in 0..CountryFetch, failAt \in 0..Len(Delivered(lang).country) :
        LET d == IF data = "full" THEN Delivered(lang) ELSE EmptyDelivery
            u == update_caches(localized_metadata, iso2Codes, class_data, aggs,
                               lang, d, failStage, failAt)
        IN  /\ Cached(localized_metadata, lang) => (data = "full" /\ failStage = 0)
            /\ IF failStage = 0 THEN failAt = 0 ELSE failAt <= Len(IF failStage = CountryFetch THEN d.country
                                                              ELSE d[elems[failStage]])
            /\ localized_metadata' = u.lm
            /\ iso2Codes' = u.iso
            /\ class_data' = u.cd
            /\ aggs' = u.ag
            /\ completed' = IF u.raised = "" THEN completed \cup {lang} ELSE completed
            /\ lastU' = [called |-> TRUE, lang |-> lang, data |-> data, fetched |-> u.fetched,
                         raised |-> u.raised, wasCompleted |-> lang \in completed,
                         before |-> [lm |-> localized_metadata, iso |-> iso2Codes,
                                     cd |-> class_data, ag |-> aggs]]
            /\ UNCHANGED <<coderVars, lang>>

NextCaches == SetLang \/ UpdateCaches

\* the caches of economy.py, the coder left alone
InitCaches == Init /\ rows = WorldGuinea.rows

SpecCaches == InitCaches /\ [][NextCaches]_vars

\* ------------------------------------------------------------------ C11
\* C11 as claimed: once update_caches has run to its end for language L, a
\* later call with the same L issues no fetch and leaves every cache as it
\* was, also when the table held for L is empty.
C11_IdempotentPerLanguage ==
    (lastU.called /\ lastU.wasCompleted) =>
        /\ lastU.fetched = 0
        /\ localized_metadata = lastU.before.lm
        /\ iso2Codes = lastU.before.iso
        /\ class_data = lastU.before.cd
        /\ aggs = lastU.before.ag

\* ------------------------------------------------------------------ C12
\* C12 as claimed: an update_caches call that raises leaves the localized
\* table of its language, _class_data and _aggs as they were, and a call
\* that returns leaves _class_data holding the fetched countries and the
\* '___' dummy entry.
C12_FailureLeavesCachesUnpopulated ==
    /\ (lastU.called /\ lastU.raised # "") =>
          /\ localized_metadata = lastU.before.lm
          /\ class_data = lastU.before.cd
          /\ aggs = lastU.before.ag
    /\ (lastU.called /\ lastU.raised = "") =>
          /\ ~ class_data.none
          /\ Underscores \in DOMAIN class_data.val
          /\ c_USA \in DOMAIN class_data.val

\* ------------------------------------------------------------------ C17
\* the key a classification record is stored under
ClassKey(row) == IF row.hasName THEN row.code ELSE row.id

\* C17: when update_caches runs for a language that has no table yet while
\* _class_data is already a dict, it leaves _class_data, _aggs and the table
\* of every other language as they were; when it returns, the new language's
\* table holds the names and the capital cities delivered in that language,
\* and nothing else.
C17_LanguageChange ==
    (lastU.called /\ ~ lastU.before.cd.none /\ lastU.lang \notin DOMAIN lastU.before.lm) =>
        /\ class_data = lastU.before.cd
        /\ aggs = lastU.before.ag
        /\ \A l1 \in DOMAIN lastU.before.lm :
              l1 \in DOMAIN localized_metadata /\ localized_metadata[l1] = lastU.before.lm[l1]
        /\ lastU.raised = "" =>
              /\ lastU.lang \in DOMAIN localized_metadata
              /\ LET tab   == localized_metadata[lastU.lang]
                     d     == IF lastU.data = "full" THEN Delivered(lastU.lang) ELSE EmptyDelivery
                     names == Range(d.region) \cup Range(d.incomelevel) \cup Range(d.lendingtype)
                 IN  /\ DOMAIN tab = { ClassKey(r) : r \in names }
                                       \cup { CapitalKey(r.id) : r \in Range(d.country) }
                     /\ \A r \in names : tab[ClassKey(r)] = Strip(r.text)
                     /\ \A r \in Range(d.country) : tab[CapitalKey(r.id)] = CapitalOf(r)

\* the tables were built in English, then French was set and update_caches
\* returned: the French table holds the French capital, the English one the
\* English capital
C17_Witness ==
    /\ lastU.called /\ lastU.raised = "" /\ lastU.lang = "fr" /\ lastU.data = "full"
    /\ ~ lastU.before.cd.none /\ Underscores \in DOMAIN lastU.before.cd.val
    /\ DOMAIN lastU.before.lm = {"en"}
    /\ localized_metadata["fr"][CapitalKey(c_BEL)] = fr_Brussels
    /\ localized_metadata["en"][CapitalKey(c_BEL)] = Strip(en_Brussels)
    /\ en_Brussels # Strip(en_Brussels)

====
